---- MODULE Spec2Model ----
(***************************************************************************)
(* Model of the response sanitizer and the tool wrappers of                *)
(* src/self_healing_agent/tools/tools.py.                                  *)
(*                                                                         *)
(* Python values are records of one shape, [kind, s, id, elems, items,     *)
(* dictm]:                                                                 *)
(*   kind  "none" | "int" | "str"      JSON primitives (s is the text)     *)
(*         "list" | "tuple"            elems is the sequence of elements   *)
(*         "dict"                      items maps keys to values           *)
(*         "url"                       a pydantic AnyUrl, s its text,      *)
(*                                     items its __dict__                  *)
(*         "obj"                       an instance with a __dict__ (items) *)
(*         "slots"                     an instance without a __dict__      *)
(*         "ref"                       a reference to the heap cell id     *)
(*         "raise"                     not a value: the exception s raised *)
(*   dictm says what the attribute dict of an instance is: "absent",       *)
(*         "raises" (calling it raises) or "returns" (it returns elems[1]).*)
(* A dict key is a record [t, s]: its type and its text.                   *)
(* Object graphs with sharing and cycles live in heap, a map from cell ids *)
(* to values whose children may be references.                             *)
(***************************************************************************)
EXTENDS Integers, Sequences, FiniteSets, TLC

VARIABLES heap, pc, result, again, wrapper, attrName, toolOutcome, toolCalls, sanitizerCalls

\* The module-level names tools.py binds while it is imported, the agents
\* assembled so far (name -> tool list), and the initializations that raised.
VARIABLES stackoverflow_tool, toolbox_tools, mcp_tools_analyse, mcp_tools_pr,
          analysis_tools, jira_tools, fixer_tools, agents, failed

registry == <<stackoverflow_tool, toolbox_tools, mcp_tools_analyse, mcp_tools_pr,
              analysis_tools, jira_tools, fixer_tools, agents, failed>>

calls == <<heap, pc, result, again, wrapper, attrName, toolOutcome, toolCalls, sanitizerCalls>>

vars == <<calls, registry>>

\* ------------------------------------------------------------------ bounds

\* Longest list or tuple drawn as the root of an input.
MaxLen == 2

\* Most tools toolbox.load_toolset("tickets_toolset") returns.
MaxToolboxTools == 2

\* Depth of nested serialize_tool_response frames the interpreter allows
\* before it raises RecursionError (sys.getrecursionlimit(), scaled down).
RecursionLimit == 7

\* ------------------------------------------------------------------ values

Key(t, s) == [t |-> t, s |-> s]

Mk(kind, s, id, elems, items, dictm) ==
    [kind |-> kind, s |-> s, id |-> id, elems |-> elems, items |-> items, dictm |-> dictm]

PyNone == Mk("none", "None", 0, <<>>, <<>>, "absent")
PyInt(text) == Mk("int", text, 0, <<>>, <<>>, "absent")
PyStr(text) == Mk("str", text, 0, <<>>, <<>>, "absent")
PyList(es) == Mk("list", "", 0, es, <<>>, "absent")
PyTuple(es) == Mk("tuple", "", 0, es, <<>>, "absent")
PyDict(its) == Mk("dict", "", 0, <<>>, its, "absent")
PyUrl(text, attrs) == Mk("url", text, 0, <<>>, attrs, "absent")
PyObject(cls, attrs, dictm, ret) == Mk("obj", cls, 0, ret, attrs, dictm)
PySlots(cls, dictm, ret) == Mk("slots", cls, 0, ret, <<>>, dictm)
Ref(i) == Mk("ref", "", i, <<>>, <<>>, "absent")
Raise(exc) == Mk("raise", exc, 0, <<>>, <<>>, "absent")

IsRaise(v) == v.kind = "raise"

Deref(v) == IF v.kind = "ref" THEN heap[v.id] ELSE v

\* The keys of a mapping as a set.
Keys(v) == DOMAIN v.items

\* key.startswith('_') over the names the inputs use.
UnderscoreNames == {"_private", "_p", "_url"}

StartsWithUnderscore(k) == k.s \in UnderscoreNames

\* The raise that leaves a loop over rs: that of an element whose call raised.
Propagated(rs) == rs[CHOOSE k \in DOMAIN rs : IsRaise(rs[k])]

AnyRaise(rs) == \E k \in DOMAIN rs : IsRaise(rs[k])

\* ------------------------------------------------------------------ str()

\* str(response): the text of a primitive or of a URL, the repr of the rest.
Str(response) ==
    IF response.kind \in {"none", "int", "str", "url"} THEN PyStr(response.s)
    ELSE IF response.kind \in {"obj", "slots"} THEN PyStr("<" \o response.s \o " object>")
    ELSE IF response.kind = "tuple" THEN PyStr("(...)")
    ELSE IF response.kind = "list" THEN PyStr("[...]")
    ELSE PyStr("{...}")

\* ------------------------------------------------------------------ json

JNull == Mk("jnull", "null", 0, <<>>, <<>>, "absent")
JNum(text) == Mk("jnum", text, 0, <<>>, <<>>, "absent")
JStr(text) == Mk("jstr", text, 0, <<>>, <<>>, "absent")
JArr(es) == Mk("jarr", "", 0, es, <<>>, "absent")
JObj(its) == Mk("jobj", "", 0, <<>>, its, "absent")

\* The JSON encoder accepts str and int keys (an int key is written as its
\* decimal text) and raises TypeError on any other key.
KeyEncodable(k) == k.t \in {"str", "int"}

JsonKey(k) == Key("str", k.s)

IsContainer(v) == v.kind \in {"list", "tuple", "dict"}

RECURSIVE JsonDumps(_, _)
\* json.dumps(v0) as the tree of the JSON text, or the exception it raises;
\* path holds the heap cells of the containers being encoded (check_circular).
JsonDumps(v0, path) ==
    LET v == Deref(v0)
        path2 == IF v0.kind = "ref" THEN path \cup {v0.id} ELSE path
    IN  IF v0.kind = "ref" /\ v0.id \in path /\ IsContainer(v)
        THEN Raise("ValueError")
        ELSE IF v.kind = "none" THEN JNull
        ELSE IF v.kind = "int" THEN JNum(v.s)
        ELSE IF v.kind = "str" THEN JStr(v.s)
        ELSE IF v.kind \in {"list", "tuple"}
        THEN LET js == [i \in DOMAIN v.elems |-> JsonDumps(v.elems[i], path2)]
             IN  IF AnyRaise(js) THEN Propagated(js) ELSE JArr(js)
        ELSE IF v.kind = "dict"
        THEN IF \E k \in Keys(v) : ~KeyEncodable(k)
             THEN Raise("TypeError")
             ELSE LET js == [k \in Keys(v) |-> JsonDumps(v.items[k], path2)]
                  IN  IF AnyRaise(js) THEN Propagated(js)
                      ELSE JObj([jk \in {JsonKey(k) : k \in Keys(v)} |->
                                js[CHOOSE k \in Keys(v) : JsonKey(k) = jk]])
        ELSE Raise("TypeError")

RECURSIVE Expand(_)
\* The value a reference-free reader sees: every reference replaced by the
\* cell it names (used on values json.dumps accepted, which are acyclic).
Expand(v0) ==
    LET v == Deref(v0)
    IN  IF v.kind \in {"list", "tuple"}
        THEN Mk(v.kind, v.s, 0, [i \in DOMAIN v.elems |-> Expand(v.elems[i])], <<>>, "absent")
        ELSE IF v.kind = "dict"
        THEN PyDict([k \in Keys(v) |-> Expand(v.items[k])])
        ELSE v

\* ------------------------------------------------------------------ sanitizer

RECURSIVE serialize_tool_response(_, _)

\* SerializeDict as it would be with the attribute branch's filter on keys.
SerializeDictSkippingUnderscore(response, depth) ==
    LET kept == {k \in Keys(response) : ~StartsWithUnderscore(k)}
        rs == [k \in kept |-> serialize_tool_response(response.items[k], depth + 1)]
    IN  IF AnyRaise(rs) THEN Propagated(rs)
        ELSE PyDict([k \in kept |-> rs[k]])

\* SerializeDict as it would be inside a try whose handler falls back to
\* str(response).
SerializeDictGuarded(response, depth) ==
    LET rs == [k \in Keys(response) |-> serialize_tool_response(response.items[k], depth + 1)]
    IN  IF AnyRaise(rs) THEN Str(response)
        ELSE PyDict([k \in Keys(response) |-> rs[k]])

\* isinstance(response, dict): a new dict, same keys, each value sanitized.
SerializeDict(response, depth) ==
    LET rs == [k \in Keys(response) |-> serialize_tool_response(response.items[k], depth + 1)]
    IN  IF AnyRaise(rs) THEN Propagated(rs)
        ELSE PyDict([k \in Keys(response) |-> rs[k]])

\* isinstance(response, list): a new list, each item sanitized.
SerializeList(response, depth) ==
    LET rs == [i \in DOMAIN response.elems |-> serialize_tool_response(response.elems[i], depth + 1)]
    IN  IF AnyRaise(rs) THEN Propagated(rs) ELSE PyList(rs)

\* isinstance(response, AnyUrl): str(response).
SerializeUrl(response) == Str(response)

\* SerializeObject as it would be without the test on the leading underscore.
SerializeObjectKeepingPrivate(response, depth) ==
    LET rs == [k \in Keys(response) |-> serialize_tool_response(response.items[k], depth + 1)]
    IN  IF AnyRaise(rs) THEN Propagated(rs)
        ELSE PyDict([k \in Keys(response) |-> rs[k]])

\* hasattr(response, '__dict__'): the attributes whose name has no leading
\* underscore, each value sanitized.
SerializeObject(response, depth) ==
    LET public == {k \in Keys(response) : ~StartsWithUnderscore(k)}
        rs == [k \in public |-> serialize_tool_response(response.items[k], depth + 1)]
    IN  IF AnyRaise(rs) THEN Propagated(rs)
        ELSE PyDict([k \in public |-> rs[k]])

\* SerializeModel as it would be without the try/except around the call.
SerializeModelUnguarded(response, depth) ==
    IF response.dictm = "raises" THEN Raise("ValueError")
    ELSE serialize_tool_response(response.elems[1], depth + 1)

\* hasattr(response, 'dict'): sanitize response.dict(); the bare except turns
\* any exception of the call or of the recursion into str(response).
SerializeModel(response, depth) ==
    IF response.dictm = "raises" THEN Str(response)
    ELSE LET r == serialize_tool_response(response.elems[1], depth + 1)
         IN  IF IsRaise(r) THEN Str(response) ELSE r

\* SerializePrimitive as it would be if it returned the text json.dumps
\* produced instead of the value.
SerializePrimitiveAsJsonText(response) ==
    IF IsRaise(JsonDumps(response, {})) THEN Str(response)
    ELSE IF response.kind = "str" THEN PyStr("\"" \o response.s \o "\"")
    ELSE IF response.kind = "none" THEN PyStr("null")
    ELSE IF response.kind = "int" THEN PyStr(response.s)
    ELSE PyStr("[...]")

\* else: the value itself when json.dumps accepts it, str(response) when
\* json.dumps raises TypeError or ValueError.
SerializePrimitive(response) ==
    IF IsRaise(JsonDumps(response, {})) THEN Str(response) ELSE Expand(response)

IsAnyUrl(v) == v.kind = "url"

HasDunderDict(v) == v.kind \in {"obj", "url"}

HasDictAttr(v) == v.kind \in {"obj", "slots"} /\ v.dictm # "absent"

\* serialize_tool_response as it would be with the AnyUrl test placed after
\* the __dict__ test.
SerializeUrlAfterAttributes(r0, depth) ==
    IF depth >= RecursionLimit THEN Raise("RecursionError")
    ELSE LET response == Deref(r0)
         IN  IF response.kind = "dict" THEN SerializeDict(response, depth)
             ELSE IF response.kind = "list" THEN SerializeList(response, depth)
             ELSE IF HasDunderDict(response) THEN SerializeObject(response, depth)
             ELSE IF IsAnyUrl(response) THEN SerializeUrl(response)
             ELSE IF HasDictAttr(response) THEN SerializeModel(response, depth)
             ELSE SerializePrimitive(response)

\* serialize_tool_response(response), called at the given frame depth: the
\* value returned, or the exception raised.
serialize_tool_response(r0, depth) ==
    IF depth >= RecursionLimit THEN Raise("RecursionError")
    ELSE LET response == Deref(r0)
         IN  IF response.kind = "dict" THEN SerializeDict(response, depth)
             ELSE IF response.kind = "list" THEN SerializeList(response, depth)
             ELSE IF IsAnyUrl(response) THEN SerializeUrl(response)
             ELSE IF HasDunderDict(response) THEN SerializeObject(response, depth)
             ELSE IF HasDictAttr(response) THEN SerializeModel(response, depth)
             ELSE SerializePrimitive(response)

\* ------------------------------------------------------------------ wrappers

Unset == Mk("unset", "", 0, <<>>, <<>>, "absent")

Wrappers == {"SerializableMCPToolset", "SerializableLangchainTool"}

AnyUrlValue == PyUrl("http://u", [k \in {Key("str", "_url")} |-> PyStr("http://u")])

\* The attributes of the wrapped tool: callable ones and plain values.
ToolAttrs ==
    [n \in {"run", "get_tools", "name", "endpoint"} |->
        IF n \in {"run", "get_tools"} THEN [callable |-> TRUE, value |-> Unset]
        ELSE IF n = "name" THEN [callable |-> FALSE, value |-> PyStr("tool")]
        ELSE [callable |-> FALSE, value |-> AnyUrlValue]]

AttrNames == DOMAIN ToolAttrs \cup {"missing"}

\* What a call of the wrapped tool's operation does: return the value at the
\* root of the heap, or raise.
ToolOutcomes == {Ref(1), Raise("TimeoutError"), Raise("ConnectionError")}

\* ------------------------------------------------------------------ inputs

Ka == Key("str", "a")
Kp == Key("str", "_p")
K1 == Key("int", "1")
Kt == Key("tuple", "(1, 2)")
Kx == Key("str", "x")
Kprivate == Key("str", "_private")

Cells == {1, 2}

Child == {PyInt("1"), AnyUrlValue, Ref(1), Ref(2)}

SeqsUpTo(S, n) == UNION {[1..m -> S] : m \in 0..n}

Maps(keysets, S) == UNION {[ks -> S] : ks \in keysets}

Leaves == {PyNone, PyInt("1"), PyStr("a"), AnyUrlValue, PySlots("bytes", "absent", <<>>)}

RootValues ==
    Leaves
    \cup {PyList(es) : es \in SeqsUpTo(Child, MaxLen)}
    \cup {PyTuple(es) : es \in SeqsUpTo(Child, MaxLen)}
    \cup {PyDict(f) : f \in Maps({{}, {Ka}, {Ka, Kp}, {K1}, {Kt}}, Child)}
    \cup {PyObject("Item", f, d[1], d[2]) :
            f \in Maps({{}, {Kx}, {Kx, Kprivate}, {Kprivate}}, Child),
            d \in {<<"absent", <<>> >>, <<"raises", <<>> >>, <<"returns", <<PyDict(<<>>)>> >>}}
    \cup {PySlots("Model", "raises", <<>>)}
    \cup {PySlots("Model", "returns", <<c>>) : c \in Child}

InnerValues ==
    UNION {{PyList(<<c>>),
            PyTuple(<<c>>),
            PyDict([k \in {Ka} |-> c]),
            PyDict([k \in {Kp} |-> c]),
            PyDict([k \in {K1} |-> c]),
            PyObject("Item", [k \in {Kx} |-> c], "absent", <<>>),
            PyObject("Item", [k \in {Kx, Kprivate} |-> IF k = Kx THEN PyInt("1") ELSE c], "absent", <<>>),
            PySlots("Model", "returns", <<c>>)} : c \in Child}

\* ------------------------------------------------------------------ actions

\* Cell a holds a tuple one of whose elements is cell b.
TupleEdge(h, a, b) ==
    h[a].kind = "tuple" /\ \E i \in DOMAIN h[a].elems : h[a].elems[i] = Ref(b)

\* A tuple is immutable: a cycle of references runs through at least one
\* list, dict or instance, never through tuples alone.
Constructible(h) == \A a, b \in Cells : ~(TupleEdge(h, a, b) /\ TupleEdge(h, b, a))

Heaps ==
    {h \in {[c \in Cells |-> IF c = 1 THEN r ELSE i] : r \in RootValues, i \in InnerValues} :
        Constructible(h)}

\* ------------------------------------------------------------------ tools

\* A tool as an agent sees it: its name, its place n in a loaded toolset, the
\* wrapper class around it ("none" when it is bound as it is) and where its
\* results come from: an external service, a function of this module, or
\* another agent.
Tool(name, n, adapter, origin) == [name |-> name, n |-> n, adapter |-> adapter, origin |-> origin]

NoneTool == Tool("None", 0, "none", "none")

get_current_date == Tool("get_current_date", 0, "none", "local")

search_tool == Tool("search_agent", 0, "none", "agent")

analysis_agent_tool == Tool("code_analysis_agent", 0, "none", "agent")

jira_agent_tool == Tool("jira_management_agent", 0, "none", "agent")

code_fixer_agent_tool == Tool("code_fixer_agent", 0, "none", "agent")

\* SerializableLangchainTool(LangchainTool(stack_exchange_tool))
StackOverflowWrapped == Tool("stack_exchange", 0, "SerializableLangchainTool", "external")

\* toolbox.load_toolset("tickets_toolset") returning n tools.
ToolboxLoaded(n) == [i \in 1..n |-> Tool("tickets_toolset", i, "none", "external")]

\* SerializableMCPToolset(mcp_tools_analyse_raw)
McpAnalyseWrapped == Tool("mcp_tools_analyse", 0, "SerializableMCPToolset", "external")

\* SerializableMCPToolset(mcp_tools_pr_raw)
McpPrWrapped == Tool("mcp_tools_pr", 0, "SerializableMCPToolset", "external")

\* if tool: a wrapper instance is true, None is false.
Truthy(tool) == tool # NoneTool

\* The state of the module-level names before tools.py runs.
RegistryUnbound ==
    /\ stackoverflow_tool = NoneTool
    /\ toolbox_tools = <<>>
    /\ mcp_tools_analyse = NoneTool
    /\ mcp_tools_pr = NoneTool
    /\ analysis_tools = <<>>
    /\ jira_tools = <<>>
    /\ fixer_tools = <<>>
    /\ agents = <<>>
    /\ failed = {}

Init ==
    /\ heap \in Heaps
    /\ pc = "start"
    /\ result = Unset
    /\ again = Unset
    /\ wrapper = "none"
    /\ attrName = "none"
    /\ toolOutcome = Unset
    /\ toolCalls = 0
    /\ sanitizerCalls = 0
    /\ RegistryUnbound

\* A direct call serialize_tool_response(root).
Serialize ==
    /\ pc = "start"
    /\ result' = serialize_tool_response(Ref(1), 0)
    /\ sanitizerCalls' = sanitizerCalls + 1
    /\ pc' = "serialized"
    /\ UNCHANGED <<heap, again, wrapper, attrName, toolOutcome, toolCalls, registry>>

\* A second call, on the value the first one returned.
Reserialize ==
    /\ pc = "serialized"
    /\ ~IsRaise(result)
    /\ again' = serialize_tool_response(result, 0)
    /\ sanitizerCalls' = sanitizerCalls + 1
    /\ pc' = "reserialized"
    /\ UNCHANGED <<heap, result, wrapper, attrName, toolOutcome, toolCalls, registry>>

\* PlainAttribute as it would be if every attribute went through the
\* sanitizer.
PlainAttributeSanitized(name) == serialize_tool_response(ToolAttrs[name].value, 0)

\* return attr, for an attribute that is not callable: the wrapped tool's own
\* value.
PlainAttribute(name) == ToolAttrs[name].value

\* w.__getattr__(name): getattr on the wrapped tool raises AttributeError for
\* a missing name; a callable attribute is returned as the closure wrapper,
\* any other attribute as it is.
GetAttr(w, name) ==
    /\ pc = "start"
    /\ wrapper' = w
    /\ attrName' = name
    /\ IF name \notin DOMAIN ToolAttrs
       THEN result' = Raise("AttributeError") /\ pc' = "raised"
       ELSE IF ToolAttrs[name].callable
       THEN result' = result /\ pc' = "bound"
       ELSE result' = PlainAttribute(name) /\ pc' = "attr"
    /\ UNCHANGED <<heap, again, toolOutcome, toolCalls, sanitizerCalls, registry>>

\* WrapperReturn as it would be if the wrapper handed the result through.
WrapperReturnRaw(raw) == raw

\* The value wrapper(*args, **kwargs) returns once attr(*args, **kwargs) has
\* returned raw.
WrapperReturn(raw) == serialize_tool_response(raw, 0)

\* WrapperOutcome as it would be with an except clause that reports the
\* failure as a value.
WrapperOutcomeMasked(out) ==
    IF IsRaise(out) THEN PyDict([k \in {Key("str", "error")} |-> PyStr(out.s)])
    ELSE WrapperReturn(out)

\* What wrapper(*args, **kwargs) does with the outcome of attr(*args,
\* **kwargs): no try surrounds the call, so an exception leaves the wrapper
\* as it is; a returned value goes through the sanitizer.
WrapperOutcome(out) == IF IsRaise(out) THEN out ELSE WrapperReturn(out)

\* wrapper(*args, **kwargs): call the wrapped operation, then the sanitizer
\* on what it returned.
CallWrapper(out) ==
    /\ pc = "bound"
    /\ toolOutcome' = out
    /\ toolCalls' = toolCalls + 1
    /\ result' = WrapperOutcome(out)
    /\ sanitizerCalls' = IF IsRaise(out) THEN sanitizerCalls ELSE sanitizerCalls + 1
    /\ pc' = IF IsRaise(result') THEN "raised" ELSE "returned"
    /\ UNCHANGED <<heap, again, wrapper, attrName, registry>>

Next ==
    \/ Serialize
    \/ Reserialize
    \/ \E w \in Wrappers, name \in AttrNames : GetAttr(w, name)
    \/ \E out \in ToolOutcomes : CallWrapper(out)

Spec == Init /\ [][Next]_vars

\* ------------------------------------------------------------------ registry

\* The values a delivered tool result is drawn from.
RegistryHeaps ==
    {[c \in Cells |-> IF c = 1 THEN r ELSE PyList(<<PyInt("1")>>)] :
        r \in {PyInt("1"), PyDict([k \in {Ka} |-> AnyUrlValue])}}

InitRegistry ==
    /\ heap \in RegistryHeaps
    /\ pc = "import"
    /\ result = Unset
    /\ again = Unset
    /\ wrapper = "none"
    /\ attrName = "none"
    /\ toolOutcome = Unset
    /\ toolCalls = 0
    /\ sanitizerCalls = 0
    /\ RegistryUnbound

\* try: stackoverflow_tool = SerializableLangchainTool(...)
\* except Exception: stackoverflow_tool = None
InitStackOverflow(ok) ==
    /\ pc = "import"
    /\ stackoverflow_tool' = IF ok THEN StackOverflowWrapped ELSE NoneTool
    /\ failed' = IF ok THEN failed ELSE failed \cup {"stackoverflow"}
    /\ pc' = "toolbox"
    /\ UNCHANGED <<heap, result, again, wrapper, attrName, toolOutcome, toolCalls, sanitizerCalls>>
    /\ UNCHANGED <<toolbox_tools, mcp_tools_analyse, mcp_tools_pr, analysis_tools, jira_tools,
                   fixer_tools, agents>>

\* try: toolbox_tools = toolbox.load_toolset("tickets_toolset")
\* except Exception: toolbox_tools = []
InitToolbox(ok, n) ==
    /\ pc = "toolbox"
    /\ toolbox_tools' = IF ok THEN ToolboxLoaded(n) ELSE <<>>
    /\ failed' = IF ok THEN failed ELSE failed \cup {"toolbox"}
    /\ pc' = "mcp_analyse"
    /\ UNCHANGED <<heap, result, again, wrapper, attrName, toolOutcome, toolCalls, sanitizerCalls>>
    /\ UNCHANGED <<stackoverflow_tool, mcp_tools_analyse, mcp_tools_pr, analysis_tools, jira_tools,
                   fixer_tools, agents>>

\* try: mcp_tools_analyse = SerializableMCPToolset(MCPToolset(...))
\* except Exception: mcp_tools_analyse = None
InitMcpAnalyse(ok) ==
    /\ pc = "mcp_analyse"
    /\ mcp_tools_analyse' = IF ok THEN McpAnalyseWrapped ELSE NoneTool
    /\ failed' = IF ok THEN failed ELSE failed \cup {"mcp_analyse"}
    /\ pc' = "mcp_pr"
    /\ UNCHANGED <<heap, result, again, wrapper, attrName, toolOutcome, toolCalls, sanitizerCalls>>
    /\ UNCHANGED <<stackoverflow_tool, toolbox_tools, mcp_tools_pr, analysis_tools, jira_tools,
                   fixer_tools, agents>>

\* try: mcp_tools_pr = SerializableMCPToolset(MCPToolset(...))
\* except Exception: mcp_tools_pr = None
InitMcpPr(ok) ==
    /\ pc = "mcp_pr"
    /\ mcp_tools_pr' = IF ok THEN McpPrWrapped ELSE NoneTool
    /\ failed' = IF ok THEN failed ELSE failed \cup {"mcp_pr"}
    /\ pc' = "analysis"
    /\ UNCHANGED <<heap, result, again, wrapper, attrName, toolOutcome, toolCalls, sanitizerCalls>>
    /\ UNCHANGED <<stackoverflow_tool, toolbox_tools, mcp_tools_analyse, analysis_tools, jira_tools,
                   fixer_tools, agents>>

\* AppendIf as it would be without the if.
AppendAlways(tools, tool) == Append(tools, tool)

\* tools.append(tool) behind if tool:
AppendIf(tools, tool) == IF Truthy(tool) THEN Append(tools, tool) ELSE tools

\* analysis_tools = [search_tool, get_current_date], then the two guarded
\* appends.
AnalysisTools ==
    AppendIf(AppendIf(<<search_tool, get_current_date>>, stackoverflow_tool), mcp_tools_analyse)

\* jira_tools = toolbox_tools + [get_current_date]
JiraTools == toolbox_tools \o <<get_current_date>>

\* fixer_tools = [get_current_date], then the two guarded appends.
FixerTools == AppendIf(AppendIf(<<get_current_date>>, mcp_tools_pr), mcp_tools_analyse)

\* agents with the agent name bound to tools.
Bind(name, tools) == [a \in DOMAIN agents \cup {name} |-> IF a = name THEN tools ELSE agents[a]]

\* analysis_agent = Agent(name="code_analysis_agent", tools=analysis_tools)
AssembleAnalysis ==
    /\ pc = "analysis"
    /\ analysis_tools' = AnalysisTools
    /\ agents' = Bind("code_analysis_agent", analysis_tools')
    /\ pc' = "jira"
    /\ UNCHANGED <<heap, result, again, wrapper, attrName, toolOutcome, toolCalls, sanitizerCalls>>
    /\ UNCHANGED <<stackoverflow_tool, toolbox_tools, mcp_tools_analyse, mcp_tools_pr, jira_tools,
                   fixer_tools, failed>>

\* jira_agent = Agent(name="jira_management_agent", tools=jira_tools)
AssembleJira ==
    /\ pc = "jira"
    /\ jira_tools' = JiraTools
    /\ agents' = Bind("jira_management_agent", jira_tools')
    /\ pc' = "fixer"
    /\ UNCHANGED <<heap, result, again, wrapper, attrName, toolOutcome, toolCalls, sanitizerCalls>>
    /\ UNCHANGED <<stackoverflow_tool, toolbox_tools, mcp_tools_analyse, mcp_tools_pr,
                   analysis_tools, fixer_tools, failed>>

\* code_fixer_agent = Agent(name="code_fixer_agent", tools=fixer_tools)
AssembleFixer ==
    /\ pc = "fixer"
    /\ fixer_tools' = FixerTools
    /\ agents' = Bind("code_fixer_agent", fixer_tools')
    /\ pc' = "root"
    /\ UNCHANGED <<heap, result, again, wrapper, attrName, toolOutcome, toolCalls, sanitizerCalls>>
    /\ UNCHANGED <<stackoverflow_tool, toolbox_tools, mcp_tools_analyse, mcp_tools_pr,
                   analysis_tools, jira_tools, failed>>

\* root_agent = Agent(name="self_healing_agent", tools=[...])
AssembleRoot ==
    /\ pc = "root"
    /\ agents' = Bind("self_healing_agent",
                      <<analysis_agent_tool, jira_agent_tool, code_fixer_agent_tool, get_current_date>>)
    /\ pc' = "assembled"
    /\ UNCHANGED <<heap, result, again, wrapper, attrName, toolOutcome, toolCalls, sanitizerCalls>>
    /\ UNCHANGED <<stackoverflow_tool, toolbox_tools, mcp_tools_analyse, mcp_tools_pr,
                   analysis_tools, jira_tools, fixer_tools, failed>>

\* What reaches the agent when tool's external call ends with out: what the
\* wrapper around the tool makes of it, or out itself when no wrapper is
\* around the tool.
Delivered(tool, out) == IF tool.adapter \in Wrappers THEN WrapperOutcome(out) ELSE Deref(out)

\* Agent a uses the i-th tool of its list, an external one, and the external
\* call ends with out.
InvokeTool(a, i, out) ==
    /\ pc = "assembled"
    /\ a \in DOMAIN agents
    /\ i \in DOMAIN agents[a]
    /\ agents[a][i].origin = "external"
    /\ wrapper' = agents[a][i].adapter
    /\ attrName' = agents[a][i].name
    /\ toolOutcome' = out
    /\ toolCalls' = toolCalls + 1
    /\ result' = Delivered(agents[a][i], out)
    /\ sanitizerCalls' =
          IF agents[a][i].adapter \in Wrappers /\ ~IsRaise(out)
          THEN sanitizerCalls + 1 ELSE sanitizerCalls
    /\ pc' = "delivered"
    /\ UNCHANGED <<heap, again, registry>>

AgentNames ==
    {"code_analysis_agent", "jira_management_agent", "code_fixer_agent", "self_healing_agent"}

NextRegistry ==
    \/ \E ok \in BOOLEAN : InitStackOverflow(ok)
    \/ \E ok \in BOOLEAN, n \in 0..MaxToolboxTools : InitToolbox(ok, n)
    \/ \E ok \in BOOLEAN : InitMcpAnalyse(ok)
    \/ \E ok \in BOOLEAN : InitMcpPr(ok)
    \/ AssembleAnalysis
    \/ AssembleJira
    \/ AssembleFixer
    \/ AssembleRoot
    \/ \E a \in AgentNames, i \in 1..(MaxToolboxTools + 4), out \in ToolOutcomes : InvokeTool(a, i, out)

RegistrySpec == InitRegistry /\ [][NextRegistry]_vars

\* ------------------------------------------------------------------ claims

Root == heap[1]

Returned == pc = "serialized" /\ ~IsRaise(result)

RECURSIVE JsonLoads(_)
\* json.loads of an encoded tree: arrays come back as lists, objects as
\* dicts with str keys.
JsonLoads(j) ==
    IF j.kind = "jnull" THEN PyNone
    ELSE IF j.kind = "jnum" THEN PyInt(j.s)
    ELSE IF j.kind = "jstr" THEN PyStr(j.s)
    ELSE IF j.kind = "jarr" THEN PyList([i \in DOMAIN j.elems |-> JsonLoads(j.elems[i])])
    ELSE PyDict([k \in Keys(j) |-> JsonLoads(j.items[k])])

RECURSIVE IsSafeValue(_)
\* null, number, string, list of SafeValue, dict from str keys to SafeValue.
IsSafeValue(v) ==
    \/ v.kind \in {"none", "int", "str"}
    \/ v.kind = "list" /\ \A i \in DOMAIN v.elems : IsSafeValue(v.elems[i])
    \/ v.kind = "dict" /\ \A k \in Keys(v) : k.t = "str" /\ IsSafeValue(v.items[k])

RECURSIVE OnlyJsonPrimitives(_)
\* Every leaf of v is null, a number or a string.
OnlyJsonPrimitives(v) ==
    \/ v.kind \in {"none", "int", "str"}
    \/ v.kind \in {"list", "tuple"} /\ \A i \in DOMAIN v.elems : OnlyJsonPrimitives(v.elems[i])
    \/ v.kind = "dict" /\ \A k \in Keys(v) : OnlyJsonPrimitives(v.items[k])

\* C1: serialize_tool_response returns a value and never raises, whatever
\* the input.
C1_NeverRaises == pc = "serialized" => ~IsRaise(result)

\* C2: every value serialize_tool_response returns is a SafeValue, encodes to
\* JSON without error and decodes back to a structurally equal value.
C2_SafeValueRoundTrip ==
    Returned =>
        /\ IsSafeValue(result)
        /\ ~IsRaise(JsonDumps(result, {}))
        /\ JsonLoads(JsonDumps(result, {})) = result

\* C3: a call through SerializableMCPToolset or SerializableLangchainTool
\* invokes the wrapped operation once and its outcome is that of
\* serialize_tool_response on the raw result; a value it returns has only
\* JSON primitives at its leaves, whatever URL values the raw result held.
C3_AdapterSanitizes ==
    (pc \in {"returned", "raised"} /\ toolOutcome.kind = "ref") =>
        /\ wrapper \in Wrappers
        /\ ToolAttrs[attrName].callable
        /\ toolCalls = 1
        /\ sanitizerCalls = 1
        /\ result = serialize_tool_response(toolOutcome, 0)
        /\ pc = "returned" => OnlyJsonPrimitives(result)

C3_Witness ==
    /\ pc = "returned"
    /\ wrapper = "SerializableMCPToolset"
    /\ Root = PyDict([k \in {Ka, Kp} |-> IF k = Ka THEN Ref(2) ELSE AnyUrlValue])
    /\ heap[2] = PyList(<<AnyUrlValue>>)
    /\ result = PyDict([k \in {Ka, Kp} |->
                    IF k = Ka THEN PyList(<<PyStr("http://u")>>) ELSE PyStr("http://u")])

\* C4: when the wrapped operation raises, the call through the wrapper
\* raises that same exception, no value is returned and the sanitizer is
\* not called.
C4_FailurePropagates ==
    IsRaise(toolOutcome) =>
        /\ pc = "raised"
        /\ result = toolOutcome
        /\ toolCalls = 1
        /\ sanitizerCalls = 0

C4_Witness ==
    /\ wrapper = "SerializableLangchainTool"
    /\ toolOutcome = Raise("TimeoutError")
    /\ pc = "raised"
    /\ result = Raise("TimeoutError")

\* C5: sanitizing a returned value again gives the same value, and an input
\* already in SafeValue form is returned structurally unchanged.
C5_Idempotent ==
    /\ pc = "reserialized" => again = result
    /\ (Returned /\ IsSafeValue(Root)) => result = Root

C5_Witness ==
    /\ pc = "reserialized"
    /\ Root.kind = "obj"
    /\ Keys(Root) = {Kx, Kprivate}
    /\ Root.items[Kx] = AnyUrlValue
    /\ again = PyDict([k \in {Kx} |-> PyStr("http://u")])

\* C6: for a dict input, a returned value is a dict with exactly the input's
\* keys (underscore keys included), each mapped to what the sanitizer gives
\* for the input's value; the call raises only when the call on one of the
\* values does.
C6_MappingKeysKept ==
    (pc = "serialized" /\ Root.kind = "dict") =>
        /\ IsRaise(result) <=>
              \E k \in Keys(Root) : IsRaise(serialize_tool_response(Root.items[k], 1))
        /\ ~IsRaise(result) =>
              /\ result.kind = "dict"
              /\ Keys(result) = Keys(Root)
              /\ \A k \in Keys(Root) :
                    result.items[k] = serialize_tool_response(Root.items[k], 1)
        /\ Root = PyDict([k \in {Ka, Kp} |-> IF k = Ka THEN PyInt("1") ELSE AnyUrlValue]) =>
              result = PyDict([k \in {Ka, Kp} |->
                            IF k = Ka THEN PyInt("1") ELSE PyStr("http://u")])

C6_Witness ==
    /\ pc = "serialized"
    /\ Root = PyDict([k \in {Ka, Kp} |-> IF k = Ka THEN PyInt("1") ELSE AnyUrlValue])
    /\ Keys(result) = {Ka, Kp}
    /\ result.items[Kp] = PyStr("http://u")

\* C7: for every sequence input, list or not, a returned value is a sequence
\* of the same length whose i-th element is what the sanitizer gives for the
\* input's i-th element, a JSON primitive when that element is a primitive
\* or a URL value. Stated for sequences of primitives and URL values, which
\* hold no reference and so no cycle.
C7_SequenceElementwise ==
    (Returned /\ Root.kind \in {"list", "tuple"}
              /\ \A i \in DOMAIN Root.elems : Root.elems[i].kind \in {"int", "url"}) =>
        /\ result.kind \in {"list", "tuple"}
        /\ Len(result.elems) = Len(Root.elems)
        /\ \A i \in DOMAIN Root.elems :
              /\ result.elems[i] = serialize_tool_response(Root.elems[i], 1)
              /\ result.elems[i].kind \in {"none", "int", "str"}

RECURSIVE PrivateExcluded(_, _)
\* out keeps no underscore attribute of the object v0 nor of any object
\* nested in it through attributes, dict values and list items.
PrivateExcluded(v0, out) ==
    LET v == Deref(v0)
    IN  IF v.kind = "obj"
        THEN /\ out.kind = "dict"
             /\ Keys(out) = {k \in Keys(v) : ~StartsWithUnderscore(k)}
             /\ \A k \in Keys(out) : PrivateExcluded(v.items[k], out.items[k])
        ELSE IF v.kind = "dict"
        THEN /\ out.kind = "dict"
             /\ Keys(out) = Keys(v)
             /\ \A k \in Keys(out) : PrivateExcluded(v.items[k], out.items[k])
        ELSE IF v.kind = "list"
        THEN /\ out.kind = "list"
             /\ DOMAIN out.elems = DOMAIN v.elems
             /\ \A i \in DOMAIN out.elems : PrivateExcluded(v.elems[i], out.elems[i])
        ELSE TRUE

\* C8: for an object with attributes, a returned value is a dict whose keys
\* are exactly the attribute names without a leading underscore, each mapped
\* to what the sanitizer gives for the attribute's value, and the same holds
\* of every object nested in it.
C8_PublicFieldsOnly ==
    (Returned /\ Root.kind = "obj") =>
        /\ result.kind = "dict"
        /\ Keys(result) = {k \in Keys(Root) : ~StartsWithUnderscore(k)}
        /\ \A k \in Keys(result) :
              result.items[k] = serialize_tool_response(Root.items[k], 1)
        /\ PrivateExcluded(Root, result)

C8_Witness ==
    /\ Returned
    /\ Root.kind = "obj"
    /\ Keys(Root) = {Kx, Kprivate}
    /\ Root.items[Kx] = Ref(2)
    /\ heap[2].kind = "obj"
    /\ Keys(heap[2]) = {Kx, Kprivate}
    /\ result = PyDict([k \in {Kx} |-> PyDict([j \in {Kx} |-> PyInt("1")])])

\* C9 as stated: for every object whose dict() raises, with or without
\* attributes of its own, the sanitizer returns str(object).
C9_DictRaisesGivesString ==
    (pc = "serialized" /\ Root.kind \in {"obj", "slots"} /\ Root.dictm = "raises") =>
        result = Str(Root)

\* C9, amended: an object without a __dict__ whose dict() raises is returned
\* as str(object); an object with a __dict__ is returned as the dict of its
\* public attributes whatever its dict() would do.
C9_DictRaisesGivesStringUnlessFields ==
    /\ (pc = "serialized" /\ Root.kind = "slots" /\ Root.dictm = "raises") =>
          result = Str(Root)
    /\ (Returned /\ Root.kind = "obj" /\ Root.dictm = "raises") =>
          /\ result.kind = "dict"
          /\ Keys(result) = {k \in Keys(Root) : ~StartsWithUnderscore(k)}

C9_Witness ==
    /\ pc = "serialized"
    /\ Root = PySlots("Model", "raises", <<>>)
    /\ result = PyStr("<Model object>")

RECURSIVE UrlsStringified(_, _)
\* Wherever v0 holds a URL value, as itself, as a dict value, as a list item
\* or as a public attribute value, out holds its text at the same place.
UrlsStringified(v0, out) ==
    LET v == Deref(v0)
    IN  IF v.kind = "url" THEN out = PyStr(v.s)
        ELSE IF v.kind = "dict"
        THEN /\ out.kind = "dict"
             /\ Keys(out) = Keys(v)
             /\ \A k \in Keys(out) : UrlsStringified(v.items[k], out.items[k])
        ELSE IF v.kind = "list"
        THEN /\ out.kind = "list"
             /\ DOMAIN out.elems = DOMAIN v.elems
             /\ \A i \in DOMAIN out.elems : UrlsStringified(v.elems[i], out.elems[i])
        ELSE IF v.kind = "obj"
        THEN /\ out.kind = "dict"
             /\ \A k \in Keys(out) : k \in Keys(v) /\ UrlsStringified(v.items[k], out.items[k])
        ELSE TRUE

\* C10: a URL value is returned as its text wherever it occurs (top level,
\* dict value, list item, attribute value, at any depth), and a URL value
\* with attributes of its own is never returned as a dict.
C10_UrlToString ==
    Returned => UrlsStringified(Root, result)

C10_Witness ==
    /\ Returned
    /\ Root.kind = "obj"
    /\ Keys(Root) = {Kx}
    /\ Root.items[Kx] = Ref(2)
    /\ heap[2] = PyDict([k \in {Ka} |-> AnyUrlValue])
    /\ Keys(AnyUrlValue) # {}
    /\ result = PyDict([k \in {Kx} |-> PyDict([j \in {Ka} |-> PyStr("http://u")])])

\* C12: reading through a wrapper an attribute of the wrapped tool that is
\* not callable gives the wrapped tool's own value, a URL value included,
\* without a call of the sanitizer or of any operation of the wrapped tool.
C12_PlainAttributeUnchanged ==
    pc = "attr" =>
        /\ wrapper \in Wrappers
        /\ ~ToolAttrs[attrName].callable
        /\ result = ToolAttrs[attrName].value
        /\ toolOutcome = Unset
        /\ toolCalls = 0
        /\ sanitizerCalls = 0

C12_Witness ==
    /\ pc = "attr"
    /\ wrapper = "SerializableLangchainTool"
    /\ attrName = "endpoint"
    /\ result.kind = "url"
    /\ Keys(result) = {Key("str", "_url")}

\* Cell a is a dict, list, tuple or object that holds cell b as a value, an
\* element or an attribute value.
HoldsCell(a, b) ==
    /\ heap[a].kind \in {"dict", "list", "tuple", "obj"}
    /\ \/ \E i \in DOMAIN heap[a].elems : heap[a].kind # "obj" /\ heap[a].elems[i] = Ref(b)
       \/ \E k \in Keys(heap[a]) : heap[a].items[k] = Ref(b)

\* Cell a is a dict, list or object that holds cell b as a dict value, a list
\* item or the value of an attribute without a leading underscore: the links
\* the sanitizer follows with no handler around the recursive call.
FollowsCell(a, b) ==
    \/ heap[a].kind = "list" /\ \E i \in DOMAIN heap[a].elems : heap[a].elems[i] = Ref(b)
    \/ heap[a].kind = "dict" /\ \E k \in Keys(heap[a]) : heap[a].items[k] = Ref(b)
    \/ heap[a].kind = "obj" /\ \E k \in Keys(heap[a]) :
            ~StartsWithUnderscore(k) /\ heap[a].items[k] = Ref(b)

\* The root reaches a cell that reaches itself, over any link.
HeldCycleFromRoot ==
    \/ HoldsCell(1, 1)
    \/ HoldsCell(1, 2) /\ (HoldsCell(2, 2) \/ HoldsCell(2, 1))

\* The root reaches a cell that reaches itself, over followed links alone.
FollowedCycleFromRoot ==
    \/ FollowsCell(1, 1)
    \/ FollowsCell(1, 2) /\ (FollowsCell(2, 2) \/ FollowsCell(2, 1))

\* C13 as stated: on a structure reachable from itself through values,
\* elements or fields, whatever the nodes on the cycle, the call returns no
\* value.
C13_CycleNeverReturns ==
    (pc = "serialized" /\ HeldCycleFromRoot) => IsRaise(result)

\* C13, amended: on a structure reachable from itself through dict values,
\* list items and public attribute values alone, the recursion descends to
\* the interpreter's limit and the call raises RecursionError.
C13_FollowedCycleNeverReturns ==
    (pc = "serialized" /\ FollowedCycleFromRoot) => result = Raise("RecursionError")

C13_Witness ==
    /\ pc = "serialized"
    /\ Root.kind = "obj"
    /\ Keys(Root) = {Kx}
    /\ Root.items[Kx] = Ref(2)
    /\ heap[2] = PyDict([k \in {Ka} |-> Ref(1)])
    /\ result = Raise("RecursionError")

Assembled == pc \in {"assembled", "delivered"}

\* C11: every external tool in the tool list of an assembled agent is bound
\* through a wrapper, and every value an external tool delivers to an agent
\* is what serialize_tool_response makes of the raw result.
C11_OnlyAdaptedTools ==
    /\ \A a \in DOMAIN agents : \A i \in DOMAIN agents[a] :
          agents[a][i].origin = "external" => agents[a][i].adapter \in Wrappers
    /\ (pc = "delivered" /\ toolOutcome.kind = "ref") =>
          result = serialize_tool_response(toolOutcome, 0)

\* <<tool>> when the initialization named init did not raise, else <<>>.
IfInitialized(init, tool) == IF init \in failed THEN <<>> ELSE <<tool>>

\* C14: whatever initializations raised, the analysis, ticketing and
\* code-fixing agents are all assembled, no tool list holds None, and each
\* list is get_current_date (with search_tool for the analysis agent) plus
\* exactly the agent's tools whose initialization did not raise.
C14_InitializationDegrades ==
    Assembled =>
        /\ AgentNames \subseteq DOMAIN agents
        /\ \A a \in DOMAIN agents : \A i \in DOMAIN agents[a] : agents[a][i] # NoneTool
        /\ agents["code_analysis_agent"] =
              <<search_tool, get_current_date>>
                  \o IfInitialized("stackoverflow", StackOverflowWrapped)
                  \o IfInitialized("mcp_analyse", McpAnalyseWrapped)
        /\ \E n \in 0..MaxToolboxTools :
              agents["jira_management_agent"] =
                  (IF "toolbox" \in failed THEN <<>> ELSE ToolboxLoaded(n)) \o <<get_current_date>>
        /\ agents["code_fixer_agent"] =
              <<get_current_date>>
                  \o IfInitialized("mcp_pr", McpPrWrapped)
                  \o IfInitialized("mcp_analyse", McpAnalyseWrapped)

C14_Witness ==
    /\ pc = "assembled"
    /\ failed = {"stackoverflow", "toolbox", "mcp_analyse", "mcp_pr"}
    /\ agents["code_analysis_agent"] = <<search_tool, get_current_date>>
    /\ agents["jira_management_agent"] = <<get_current_date>>
    /\ agents["code_fixer_agent"] = <<get_current_date>>

====
